---- MODULE Spec2Model ----
(***************************************************************************)
(* Model of penmon's eto.py: the Station factory/registry, the Climate     *)
(* profile, and the TimeEntry / DayEntry / HourEntry derivations.          *)
(*                                                                         *)
(* Units.  Python floats are modelled by scaled integers:                  *)
(*   radiation (R_so, radiation_s, R_s)             tenths of MJ/m2        *)
(*   extraterrestrial radiation R_a                 thousandths of MJ/m2   *)
(*   hours (sunshine_hours, daylight_hours)         tenths of an hour      *)
(*   wind speed                                     tenths of m/s          *)
(*   temperatures                                   whole degrees Celsius  *)
(*   humidity                                       percent                *)
(*   vapour pressure                                thousandths of kPa     *)
(*   k_rs                                           hundredths             *)
(* Python objects (entries, Climate profiles) live in heaps indexed by an  *)
(* object identity; a reference is the index.                              *)
(***************************************************************************)
EXTENDS Integers, Sequences, FiniteSets, TLC

VARIABLES
    CHECK_RADIATION_RANGE,        \* module global, eto.py line 18
    CHECK_SUNSHINE_HOURS_RANGE,   \* module global, eto.py line 19
    station,                      \* the Station object
    climates,                     \* heap of Climate objects
    entries,                      \* heap of DayEntry / HourEntry objects
    ret                           \* outcome of the last call made by the caller

vars == <<CHECK_RADIATION_RANGE, CHECK_SUNSHINE_HOURS_RANGE, station, climates, entries, ret>>

----------------------------------------------------------------------------
(* Bounds of the model *)

\* number of entry objects the caller creates
MaxEntries == 2

\* number of Climate objects the caller creates besides the station's default
MaxClimates == 1

----------------------------------------------------------------------------
(* Python values *)

\* Python's None; every numeric observation of the model is far above it
None == -9999

\* Python truthiness of an optional number: None and 0 are both falsy
Truthy(x) == x # None /\ x # 0

\* round(num/den, 0) for den > 0, ties to even as Python's round() does
Round(num, den) ==
    LET q == num \div den
        r == num % den
    IN  IF 2 * r < den THEN q
        ELSE IF 2 * r > den THEN q + 1
        ELSE IF q % 2 = 0 THEN q ELSE q + 1

\* outcomes of a call: a returned value or a raised exception
Ok(v) == [kind |-> "ok", exc |-> "", msg |-> "", val |-> v]
Raise(x, m) == [kind |-> "raise", exc |-> x, msg |-> m, val |-> <<>>]
Num(n) == IF n = None THEN <<"None">> ELSE <<"num", n>>

----------------------------------------------------------------------------
(* Climate *)

\* Climate.__init__
ClimateInit ==
    [interior_location |-> TRUE, coastal_location |-> FALSE, island_location |-> FALSE,
     arid_climate |-> TRUE, humid_climate |-> FALSE,
     dew_point_difference |-> 2, average_wind_speed |-> 20, k_rs |-> 16]

light_winds(c) == [c EXCEPT !.average_wind_speed = 5]
moderate_winds(c) == [c EXCEPT !.average_wind_speed = 20]
strong_winds(c) == [c EXCEPT !.average_wind_speed = 40]
arid(c) == [c EXCEPT !.arid_climate = TRUE, !.humid_climate = FALSE, !.dew_point_difference = 2]
humid(c) == [c EXCEPT !.arid_climate = FALSE, !.humid_climate = TRUE, !.dew_point_difference = 0]
interior(c) == [c EXCEPT !.interior_location = TRUE, !.coastal_location = FALSE,
                          !.island_location = FALSE, !.k_rs = 16]
coastal(c) == [c EXCEPT !.interior_location = FALSE, !.coastal_location = TRUE,
                         !.island_location = FALSE, !.k_rs = 19]
island_KeepsCoastal(c) == [c EXCEPT !.interior_location = FALSE, !.island_location = TRUE, !.k_rs = 19]
island(c) == [c EXCEPT !.interior_location = FALSE, !.coastal_location = FALSE,
                        !.island_location = TRUE, !.k_rs = 19]

----------------------------------------------------------------------------
(* Astronomy.  The trigonometric formulas are tabulated: the values are    *)
(* the ones eto.py computes for the station of the module's docstring,     *)
(* Station(41.42, 109.0, altitude), on the day numbers and hours the model *)
(* uses.  All of them in thousandths.                                      *)

\* TimeEntry.R_a (Eq. 21): rounded to one decimal by the code
TimeEntry_R_a(e) == CASE e.day_number = 180 -> 41700 [] OTHER -> 13000

\* TimeEntry.daylight_hours (Eq. 34), tenths of an hour
daylight_hours(e) == CASE e.day_number = 180 -> 150 [] OTHER -> 91

\* HourEntry.R_a: 0 at night (w < -ws or w > ws), rounded to three decimals
HourEntry_R_a(e) ==
    CASE e.day_number = 180 /\ e.time = 0 -> 2738
      [] e.day_number \in {1, 366} /\ e.time = 0 -> 297
      [] OTHER -> 0

\* method dispatch on the entry's class
R_a(e) == IF e.kind = "hour" THEN HourEntry_R_a(e) ELSE TimeEntry_R_a(e)

\* TimeEntry.R_so (Eq. 36 / 37): clear-sky radiation, tenths
R_so(e) ==
    IF station.altitude < 100
    THEN Round(75 * R_a(e), 10000)
    ELSE Round((37500 + station.altitude) * R_a(e), 5000000)

----------------------------------------------------------------------------
(* Entries *)

\* TimeEntry.__init__: every observation starts unset; the entry keeps a
\* reference to the profile the station had when the entry was created
TimeEntryInit_WithSoil(kind, time, day_number) ==
    [kind |-> kind, time |-> time, day_number |-> day_number,
     temp_min |-> None, temp_max |-> None, temp_mean |-> None,
     humidity_mean |-> None, humidity_min |-> None, humidity_max |-> None,
     wind_speed |-> None, radiation_s |-> None,
     temp_dew |-> None, temp_dry |-> None, temp_wet |-> None, temp_soil |-> 15,
     climate |-> station.climate,
     logged_atmospheric_pressure |-> None, vapour_pressure |-> None,
     sunshine_hours |-> None]

TimeEntryInit(kind, time, day_number) ==
    [kind |-> kind, time |-> time, day_number |-> day_number,
     temp_min |-> None, temp_max |-> None, temp_mean |-> None,
     humidity_mean |-> None, humidity_min |-> None, humidity_max |-> None,
     wind_speed |-> None, radiation_s |-> None,
     temp_dew |-> None, temp_dry |-> None, temp_wet |-> None, temp_soil |-> None,
     climate |-> station.climate,
     logged_atmospheric_pressure |-> None, vapour_pressure |-> None,
     sunshine_hours |-> None]

\* the profile the station currently refers to (None or an object of the heap)
HasClimate(ref) == ref # None

\* DayEntry.solar_radiation, line 773: n cannot be more than N unless the switch is off
SunshineOutOfRange_NoSwitch(n, N) == n > N
SunshineOutOfRange(n, N) == n > N /\ CHECK_SUNSHINE_HOURS_RANGE

\* DayEntry.solar_radiation, lines 740-741: the estimates from the climate profile
\* are tried only when no sunshine hours were observed (n == None)
NoSunshineObserved_Always(e) == TRUE
NoSunshineObserved(e) == e.sunshine_hours = None

\* DayEntry.solar_radiation (Rs), tenths
DayEntry_solar_radiation(e) ==
    IF Truthy(e.radiation_s)
    THEN IF CHECK_RADIATION_RANGE /\ e.radiation_s > R_so(e)
         THEN Raise("ValueError", "Solar radiation out ot range")
         ELSE Ok(Num(e.radiation_s))
    ELSE
    IF NoSunshineObserved(e) /\ HasClimate(station.climate)
       /\ climates[station.climate].island_location /\ station.altitude < 100
    THEN Ok(Num(Round(7 * R_a(e) - 40000, 1000)))
    ELSE
    IF NoSunshineObserved(e) /\ HasClimate(station.climate)
       /\ Truthy(e.temp_min) /\ Truthy(e.temp_max)
    THEN LET climate == climates[station.climate]
             krs == IF climate.coastal_location THEN 19 ELSE 16
         IN  IF e.temp_max < e.temp_min
             THEN Raise("ValueError", "math domain error")
             ELSE Ok(<<"Eq50", krs, e.temp_max - e.temp_min, R_a(e)>>)
    ELSE
    LET n == IF e.sunshine_hours = None THEN daylight_hours(e) ELSE e.sunshine_hours
        N == daylight_hours(e)
    IN  IF n < 0
        THEN Raise("ValueError", "Observed daylight hours cannot be less than 0")
        ELSE IF SunshineOutOfRange(n, N)
        THEN Raise("ValueError", "Daylight hours out of range")
        ELSE IF N = 0
        THEN Raise("ZeroDivisionError", "division by zero")
        ELSE Ok(Num(Round(R_a(e) * (N + 2 * n), 400 * N)))

\* HourEntry.solar_radiation with the test of line 865 written "if self.radiation_s:"
HourEntry_solar_radiation_ZeroUnset(e) ==
    IF Truthy(e.radiation_s)
    THEN IF CHECK_RADIATION_RANGE /\ R_so(e) = 0 /\ 10 * e.radiation_s > 5
         THEN Raise("ValueError", "'Lunar' radiation out ot range")
         ELSE IF CHECK_RADIATION_RANGE /\ R_so(e) > 0
                 /\ 100 * (e.radiation_s - R_so(e)) > 5 * R_so(e)
         THEN Raise("ValueError", "Solar radiation out ot range")
         ELSE Ok(Num(e.radiation_s))
    ELSE Raise("Exception", "Cannot calculate eto(): radiation_s (Solar radiation) is missing")

\* HourEntry.solar_radiation (Rs), tenths
HourEntry_solar_radiation(e) ==
    IF e.radiation_s # None
    THEN IF CHECK_RADIATION_RANGE /\ R_so(e) = 0 /\ 10 * e.radiation_s > 5
         THEN Raise("ValueError", "'Lunar' radiation out ot range")
         ELSE IF CHECK_RADIATION_RANGE /\ R_so(e) > 0
                 /\ 100 * (e.radiation_s - R_so(e)) > 5 * R_so(e)
         THEN Raise("ValueError", "Solar radiation out ot range")
         ELSE Ok(Num(e.radiation_s))
    ELSE Raise("Exception", "Cannot calculate eto(): radiation_s (Solar radiation) is missing")

\* method dispatch on the entry's class
solar_radiation(e) ==
    IF e.kind = "hour" THEN HourEntry_solar_radiation(e) ELSE DayEntry_solar_radiation(e)

----------------------------------------------------------------------------
(* Derivations of TimeEntry.  A quantity the code computes with exp, log,   *)
(* sqrt or a fourth power is kept as a term naming the equation and its     *)
(* inputs, e.g. <<"Eq14", Tdew>>; a quantity returned as logged or computed *)
(* by exact arithmetic is <<"num", n>>; a method that returns None gives    *)
(* <<"None">>.                                                              *)

\* 4.87 / ln(67.8 * h - 5.42) of Eq. 47, in 1/100000, for the anemometer heights used
WindFactor(h) == CASE h = 10 -> 74795 [] OTHER -> 74795

\* TimeEntry.wind_speed_2m, tenths of m/s
wind_speed_2m(e) ==
    IF Truthy(e.wind_speed) /\ station.anemometer_height = 2
    THEN Ok(Num(e.wind_speed))
    ELSE IF Truthy(e.wind_speed) /\ station.anemometer_height # 2
    THEN Ok(Num(Round(e.wind_speed * WindFactor(station.anemometer_height), 100000)))
    ELSE IF HasClimate(station.climate)
    THEN Ok(Num(climates[station.climate].average_wind_speed))
    ELSE Ok(<<"None">>)

\* TimeEntry.dew_point: the fallback reads the entry's own climate reference
dew_point(e) ==
    IF Truthy(e.temp_dew)
    THEN Ok(Num(e.temp_dew))
    ELSE IF Truthy(e.temp_min) /\ HasClimate(e.climate)
    THEN Ok(Num(e.temp_min - climates[e.climate].dew_point_difference))
    ELSE Ok(<<"None">>)

\* the truth value Python gives a returned optional number
TruthyVal(v) == v # <<"None">> /\ v # <<"num", 0>>

\* TimeEntry.Tmean (Eq. 9)
Tmean(e) ==
    IF Truthy(e.temp_mean) THEN Ok(Num(e.temp_mean))
    ELSE IF Truthy(e.temp_max) /\ Truthy(e.temp_min)
    THEN Ok(<<"Eq9", e.temp_max, e.temp_min>>)
    ELSE Ok(<<"None">>)

\* TimeEntry.mean_saturation_vapour_pressure (Eq. 12)
mean_saturation_vapour_pressure(e) ==
    IF Truthy(e.temp_max) /\ Truthy(e.temp_min)
    THEN Ok(<<"Eq12", e.temp_max, e.temp_min>>)
    ELSE IF Truthy(e.temp_mean)
    THEN Ok(<<"Eq11", e.temp_mean>>)
    ELSE Ok(<<"None">>)

\* TimeEntry.actual_vapour_pressure: the first branch whose inputs are all truthy
actual_vapour_pressure(e) ==
    IF Truthy(e.vapour_pressure)
    THEN Ok(Num(e.vapour_pressure))
    ELSE IF Truthy(e.temp_dry) /\ Truthy(e.temp_wet)
    THEN Ok(<<"Eq15", e.temp_dry, e.temp_wet>>)
    ELSE IF Truthy(e.humidity_max) /\ Truthy(e.humidity_min)
            /\ Truthy(e.temp_max) /\ Truthy(e.temp_min)
    THEN Ok(<<"Eq17", e.humidity_max, e.humidity_min, e.temp_max, e.temp_min>>)
    ELSE IF Truthy(e.humidity_max) /\ Truthy(e.temp_min)
    THEN Ok(<<"Eq18", e.humidity_max, e.temp_min>>)
    ELSE IF Truthy(e.humidity_mean) /\ Truthy(e.temp_max) /\ Truthy(e.temp_min)
    THEN Ok(<<"Eq19", e.humidity_mean, e.temp_max, e.temp_min>>)
    ELSE IF Truthy(e.humidity_mean) /\ Truthy(e.temp_mean)
    THEN Ok(<<"Eq19mean", e.humidity_mean, e.temp_mean>>)
    ELSE IF TruthyVal(dew_point(e).val)
    THEN Ok(<<"Eq14", dew_point(e).val[2]>>)
    ELSE Ok(<<"None">>)

\* TimeEntry.vapour_pressure_deficit: a None operand makes the subtraction fail
vapour_pressure_deficit(e) ==
    IF mean_saturation_vapour_pressure(e).val = <<"None">>
       \/ actual_vapour_pressure(e).val = <<"None">>
    THEN Raise("TypeError", "unsupported operand type(s) for -")
    ELSE Ok(<<"vpd">>)

\* TimeEntry.R_ns (Eq. 38), with the default Crop's albedo
R_ns(e) ==
    IF solar_radiation(e).kind = "raise" THEN solar_radiation(e) ELSE Ok(<<"Eq38">>)

\* TimeEntry.R_nl (Eq. 39), daily form
TimeEntry_R_nl(e) ==
    IF ~(Truthy(e.temp_max) /\ Truthy(e.temp_min))
    THEN Raise("Exception",
               "Net longwave radiation cannot be calculated without min/max temperature")
    ELSE IF solar_radiation(e).kind = "raise"
    THEN solar_radiation(e)
    ELSE IF actual_vapour_pressure(e).val = <<"None">>
    THEN Raise("TypeError", "must be real number, not NoneType")
    ELSE IF R_so(e) = 0
    THEN Raise("ZeroDivisionError", "float division by zero")
    ELSE Ok(<<"Eq39">>)

\* HourEntry.R_l_incoming
R_l_incoming(e) ==
    IF R_so(e) # 0 /\ e.radiation_s = None
    THEN Raise("TypeError", "unsupported operand type(s) for /")
    ELSE IF Tmean(e).val = <<"None">>
    THEN Raise("TypeError", "unsupported operand type(s) for +")
    ELSE Ok(<<"R_l_incoming">>)

\* HourEntry.R_nl
HourEntry_R_nl(e) ==
    IF e.temp_soil = None
    THEN Raise("Exception",
               "Net longwave radiation cannot be calculated without soil temperature")
    ELSE IF R_l_incoming(e).kind = "raise"
    THEN R_l_incoming(e)
    ELSE Ok(<<"R_ol - R_il">>)

\* method dispatch on the entry's class
R_nl(e) == IF e.kind = "hour" THEN HourEntry_R_nl(e) ELSE TimeEntry_R_nl(e)

\* raise(str(e)): raising a str is itself a TypeError
RaiseStr == Raise("TypeError", "exceptions must derive from BaseException")

\* TimeEntry.net_radiation (Eq. 40)
net_radiation(e) ==
    IF R_ns(e).kind = "raise" THEN R_ns(e)
    ELSE IF R_nl(e).kind = "raise" THEN RaiseStr
    ELSE Ok(<<"Eq40">>)

\* TimeEntry.soil_heat_flux / HourEntry.soil_heat_flux
soil_heat_flux(e) ==
    IF e.kind = "day" THEN Ok(<<"num", 0>>)
    ELSE IF e.radiation_s = None
    THEN Raise("TypeError", "'<' not supported between instances of 'NoneType' and 'float'")
    ELSE IF net_radiation(e).kind = "raise" THEN net_radiation(e)
    ELSE Ok(<<"G">>)

\* n ** 0.5 in thousandths, rounded down
Sqrt1000(n) == CHOOSE s \in 0..(1000 * n) : s * s <= 1000000 * n /\ (s + 1) * (s + 1) > 1000000 * n

\* the number an Eq. 52 term stands for, in hundredths:
\* round(0.0023 * (Tmean + 17.8) * (temp_max - temp_min) ** 0.5 * Ra, 2) with
\* Tmean = (temp_max + temp_min) / 2; nothing in it bounds the rate from below
Eq52Value(v) ==
    LET T178 == 5 * (v[2] + v[3]) + 178
        Magnitude(f) == Round(Round(23 * f * Sqrt1000(v[2] - v[3]), 1000) * v[4], 1000000)
    IN  IF T178 < 0 THEN 0 - Magnitude(0 - T178) ELSE Magnitude(T178)

\* TimeEntry.eto_hargreaves (Eq. 52)
eto_hargreaves(e) ==
    IF e.temp_max = None \/ e.temp_min = None
    THEN Raise("TypeError", "unsupported operand type(s) for +")
    ELSE IF e.temp_max < e.temp_min
    THEN Raise("TypeError", "type complex doesn't define __round__ method")
    ELSE Ok(<<"Eq52", e.temp_max, e.temp_min, R_a(e)>>)

\* TimeEntry.eto (Eq. 6): 0 when the numerator is negative, else the quotient
eto(e) ==
    IF ~TruthyVal(wind_speed_2m(e).val)
    THEN eto_hargreaves(e)
    ELSE IF Tmean(e).val = <<"None">>
    THEN Raise("Exception", "Cannot calculate eto(): temp_mean (mean temperature) is missing")
    ELSE IF net_radiation(e).kind = "raise"
    THEN RaiseStr
    ELSE IF soil_heat_flux(e).kind = "raise"
    THEN soil_heat_flux(e)
    ELSE IF vapour_pressure_deficit(e).kind = "raise"
    THEN vapour_pressure_deficit(e)
    ELSE Ok(<<"Eq6", wind_speed_2m(e).val[2]>>)

----------------------------------------------------------------------------
(* Station *)

\* Crop(): the reference crop; albedo and height in hundredths
CropInit == [resistance_a |-> 208, albedo |-> 23, height |-> 12]

\* Station.__init__ on arguments that pass its checks
StationInit(latitude, longitude, altitude, anemometer_height, timezone_longitude) ==
    [latitude |-> latitude, longitude |-> longitude, altitude |-> altitude,
     timezone_longitude |-> 345,
     days |-> <<>>, hours |-> <<>>,
     anemometer_height |-> anemometer_height,
     climate |-> 1,
     ref_crop |-> CropInit]

\* d[k] = v on a Python dict
DictSet(d, k, v) == [x \in DOMAIN d \cup {k} |-> IF x = k THEN v ELSE d[x]]

\* the record of a call: what was called, on what, with which arguments, and its outcome
Call(op, self, d, h, r, s, out) ==
    [op |-> op, self |-> self, d |-> d, h |-> h, r |-> r, s |-> s,
     kind |-> out.kind, exc |-> out.exc, msg |-> out.msg, val |-> out.val]

\* int(datetime.timestamp(dt_hour) / 3600): the whole-hour index of a timestamp
HourKey(d, h) == 24 * (d - 1) + h

\* arguments the caller passes
DayArgs == {1, 366}
BadDayArgs == {0, 367}
HourDayArgs == {180}
HourArgs == {0, 12}
TempMinArgs == {10}
TempMaxArgs == {20}
TempMeanArgs == {None}
WindArgs == {None}
HumidityArgs == {None}
DayRadiationArgs == {None, 0, 98, 99}
BadDayRadiationArgs == {None, 99}
HourRadiationArgs == {None, 0, 21, 22, 23}
SunshineArgs == {None, 91, 92}
Altitudes == {50, 200}

\* Station.day_entry, line 156: the accepted day numbers
DayNumberInRange_FromZero(day_number) == day_number >= 0 /\ day_number <= 366
DayNumberInRange(day_number) == day_number >= 1 /\ day_number <= 366

\* Station.day_entry(day_number, temp_min=..., ..., radiation_s=r, sunshine_hours=s)
day_entry(day_number, temp_min, temp_max, temp_mean, wind_speed, humidity_mean, r, s) ==
    IF ~DayNumberInRange(day_number)
    THEN /\ ret' = Call("day_entry", 0, day_number, None, r, s,
                        Raise("Exception", "'day_number' must be between in the range 1-366"))
         /\ UNCHANGED <<CHECK_RADIATION_RANGE, CHECK_SUNSHINE_HOURS_RANGE, station, climates, entries>>
    ELSE
    /\ Len(entries) < MaxEntries
    /\ LET id == Len(entries) + 1
           day0 == [TimeEntryInit("day", day_number, day_number) EXCEPT
                      !.temp_min = temp_min, !.temp_max = temp_max, !.temp_mean = temp_mean,
                      !.humidity_mean = humidity_mean, !.wind_speed = wind_speed]
           radBad == Truthy(r) /\ CHECK_RADIATION_RANGE /\ ~(r <= R_so(day0))
           day1 == IF Truthy(r) /\ ~radBad THEN [day0 EXCEPT !.radiation_s = r] ELSE day0
           sunBad == Truthy(s) /\ CHECK_SUNSHINE_HOURS_RANGE /\ ~(s <= daylight_hours(day1))
           day2 == IF Truthy(s) /\ ~sunBad THEN [day1 EXCEPT !.sunshine_hours = s] ELSE day1
       IN  /\ station' = [station EXCEPT !.days = DictSet(station.days, day_number, id)]
           /\ IF radBad
              THEN /\ entries' = Append(entries, day0)
                   /\ ret' = Call("day_entry", 0, day_number, None, r, s,
                                  Raise("ValueError", "Raditaion out of range"))
              ELSE IF sunBad
              THEN /\ entries' = Append(entries, day1)
                   /\ ret' = Call("day_entry", 0, day_number, None, r, s,
                                  Raise("ValueError", "Sunshine hours out of range"))
              ELSE /\ entries' = Append(entries, day2)
                   /\ ret' = Call("day_entry", 0, day_number, None, r, s, Ok(<<"entry", id>>))
    /\ UNCHANGED <<CHECK_RADIATION_RANGE, CHECK_SUNSHINE_HOURS_RANGE, climates>>

\* Station.hour_entry(dt_hour, temp_min=..., ..., radiation_s=r), dt_hour a datetime
\* on day d of the year at hour h
hour_entry(d, h, temp_min, temp_max, temp_mean, wind_speed, humidity_mean, r) ==
    /\ Len(entries) < MaxEntries
    /\ LET id == Len(entries) + 1
           hour0 == [TimeEntryInit("hour", h, d) EXCEPT
                      !.temp_min = temp_min, !.temp_max = temp_max, !.temp_mean = temp_mean,
                      !.humidity_mean = humidity_mean, !.wind_speed = wind_speed]
           radOk == 100 * (r - R_so(hour0)) > 5 * R_so(hour0)
           radBad == Truthy(r) /\ CHECK_RADIATION_RANGE /\ ~radOk
           hour1 == IF Truthy(r) /\ ~radBad THEN [hour0 EXCEPT !.radiation_s = r] ELSE hour0
       IN  /\ station' = [station EXCEPT !.hours = DictSet(station.hours, HourKey(d, h), id)]
           /\ entries' = Append(entries, hour1)
           /\ ret' = Call("hour_entry", 0, d, h, r, None,
                          IF radBad THEN Raise("ValueError", "Radiation out of range")
                                    ELSE Ok(<<"entry", id>>))
    /\ UNCHANGED <<CHECK_RADIATION_RANGE, CHECK_SUNSHINE_HOURS_RANGE, climates>>

\* the caller assigns eto.CHECK_RADIATION_RANGE
SetCheckRadiationRange(b) ==
    /\ CHECK_RADIATION_RANGE # b
    /\ CHECK_RADIATION_RANGE' = b
    /\ UNCHANGED <<CHECK_SUNSHINE_HOURS_RANGE, station, climates, entries, ret>>

\* the caller assigns eto.CHECK_SUNSHINE_HOURS_RANGE
SetCheckSunshineHoursRange(b) ==
    /\ CHECK_SUNSHINE_HOURS_RANGE # b
    /\ CHECK_SUNSHINE_HOURS_RANGE' = b
    /\ UNCHANGED <<CHECK_RADIATION_RANGE, station, climates, entries, ret>>

\* the caller calls entry.solar_radiation() on an entry it holds
Call_solar_radiation(id) ==
    /\ ret' = Call("solar_radiation", id, None, None, None, None, solar_radiation(entries[id]))
    /\ UNCHANGED <<CHECK_RADIATION_RANGE, CHECK_SUNSHINE_HOURS_RANGE, station, climates, entries>>

----------------------------------------------------------------------------------------------------------------------------------------
(* The daily factory specification: a constructed station, daily entries   *)
(* created through day_entry, the two range-check switches, and            *)
(* solar_radiation() read back from the entries.                           *)

Init ==
    /\ CHECK_RADIATION_RANGE = TRUE
    /\ CHECK_SUNSHINE_HOURS_RANGE = TRUE
    /\ \E altitude \in Altitudes : station = StationInit(4142, 10900, altitude, 2, 345)
    /\ climates = <<ClimateInit>>
    /\ entries = <<>>
    /\ ret = Call("Station", 0, None, None, None, None, Ok(<<"station">>))

DayEntryCall ==
    \E d \in DayArgs, tmin \in TempMinArgs, tmax \in TempMaxArgs, tmean \in TempMeanArgs,
       ws \in WindArgs, hm \in HumidityArgs, r \in DayRadiationArgs, s \in SunshineArgs :
       day_entry(d, tmin, tmax, tmean, ws, hm, r, s)

BadDayEntryCall ==
    \E d \in BadDayArgs, tmin \in TempMinArgs, tmax \in TempMaxArgs, tmean \in TempMeanArgs,
       ws \in WindArgs, hm \in HumidityArgs, r \in BadDayRadiationArgs :
       day_entry(d, tmin, tmax, tmean, ws, hm, r, None)

HourEntryCall ==
    \E d \in HourDayArgs, h \in HourArgs, tmin \in TempMinArgs, tmax \in TempMaxArgs,
       tmean \in TempMeanArgs, ws \in WindArgs, hm \in HumidityArgs, r \in HourRadiationArgs :
       hour_entry(d, h, tmin, tmax, tmean, ws, hm, r)

SolarRadiationCall == \E id \in 1..Len(entries) : Call_solar_radiation(id)

Next ==
    \/ DayEntryCall
    \/ BadDayEntryCall
    \/ \E b \in BOOLEAN : SetCheckRadiationRange(b)
    \/ \E b \in BOOLEAN : SetCheckSunshineHoursRange(b)
    \/ SolarRadiationCall

Spec == Init /\ [][Next]_vars

----------------------------------------------------------------------------
(* The climate specification: the station's profile and the profiles the   *)
(* caller creates, changed through the fluent mutators, and the caller     *)
(* replacing station.climate.                                              *)

\* a call of a Climate mutator on the profile object id: the object is updated
\* in place and the method returns self
Mutate(op, id, new) ==
    /\ climates' = [climates EXCEPT ![id] = new]
    /\ ret' = Call(op, id, None, None, None, None, Ok(<<"climate", id>>))
    /\ UNCHANGED <<CHECK_RADIATION_RANGE, CHECK_SUNSHINE_HOURS_RANGE, station, entries>>

Call_light_winds(id) == Mutate("light_winds", id, light_winds(climates[id]))
Call_moderate_winds(id) == Mutate("moderate_winds", id, moderate_winds(climates[id]))
Call_strong_winds(id) == Mutate("strong_winds", id, strong_winds(climates[id]))
Call_arid(id) == Mutate("arid", id, arid(climates[id]))
Call_humid(id) == Mutate("humid", id, humid(climates[id]))
Call_interior(id) == Mutate("interior", id, interior(climates[id]))
Call_coastal(id) == Mutate("coastal", id, coastal(climates[id]))
Call_island(id) == Mutate("island", id, island(climates[id]))

\* the caller constructs a profile: Climate()
NewClimate ==
    /\ Len(climates) < 1 + MaxClimates
    /\ climates' = Append(climates, ClimateInit)
    /\ ret' = Call("Climate", 0, None, None, None, None, Ok(<<"climate", Len(climates) + 1>>))
    /\ UNCHANGED <<CHECK_RADIATION_RANGE, CHECK_SUNSHINE_HOURS_RANGE, station, entries>>

\* the caller assigns station.climate: None or a profile it holds
SetStationClimate(ref) ==
    /\ station.climate # ref
    /\ station' = [station EXCEPT !.climate = ref]
    /\ UNCHANGED <<CHECK_RADIATION_RANGE, CHECK_SUNSHINE_HOURS_RANGE, climates, entries, ret>>

NextClimate ==
    \/ NewClimate
    \/ \E ref \in {None} \cup (1..Len(climates)) : SetStationClimate(ref)
    \/ \E id \in 1..Len(climates) : Call_light_winds(id)
    \/ \E id \in 1..Len(climates) : Call_moderate_winds(id)
    \/ \E id \in 1..Len(climates) : Call_strong_winds(id)
    \/ \E id \in 1..Len(climates) : Call_arid(id)
    \/ \E id \in 1..Len(climates) : Call_humid(id)
    \/ \E id \in 1..Len(climates) : Call_interior(id)
    \/ \E id \in 1..Len(climates) : Call_coastal(id)
    \/ \E id \in 1..Len(climates) : Call_island(id)

SpecClimate == Init /\ [][NextClimate]_vars

----------------------------------------------------------------------------
(* The derivation specifications: one entry whose observations the caller  *)
(* has set (through the factory or by assigning the entry's attributes),   *)
(* and the derived quantities read from it.                                *)

\* the caller calls a derivation on the entry id: nothing but the outcome changes
Derive_StoresWind(op, id, out) ==
    /\ ret' = Call(op, id, None, None, None, None, out)
    /\ entries' = IF op = "wind_speed_2m" /\ out.val # <<"None">>
                  THEN [entries EXCEPT ![id].wind_speed = out.val[2]]
                  ELSE entries
    /\ UNCHANGED <<CHECK_RADIATION_RANGE, CHECK_SUNSHINE_HOURS_RANGE, station, climates>>

Derive(op, id, out) ==
    /\ ret' = Call(op, id, None, None, None, None, out)
    /\ UNCHANGED <<CHECK_RADIATION_RANGE, CHECK_SUNSHINE_HOURS_RANGE, station, climates, entries>>

Call_wind_speed_2m(id) == Derive("wind_speed_2m", id, wind_speed_2m(entries[id]))
Call_dew_point(id) == Derive("dew_point", id, dew_point(entries[id]))
Call_actual_vapour_pressure(id) ==
    Derive("actual_vapour_pressure", id, actual_vapour_pressure(entries[id]))
Call_R_nl(id) == Derive("R_nl", id, R_nl(entries[id]))
Call_net_radiation(id) == Derive("net_radiation", id, net_radiation(entries[id]))
Call_eto_hargreaves(id) == Derive("eto_hargreaves", id, eto_hargreaves(entries[id]))
Call_eto(id) == Derive("eto", id, eto(entries[id]))

\* observations of the entry under derivation
EtoKinds == {"day", "hour"}
EtoWindSpeeds == {None, 0, 20}
EtoAnemometerHeights == {2, 10}
EtoTempMins == {None, 10, -30}
EtoTempMaxs == {None, 20, -20}
EtoTempMeans == {None, 15}
EtoTempSoils == {None, 15}
EtoRadiations == {None, 20}
EtoHumidityMeans == {None, 50}

\* the station with one entry, of day 180 (hour 0 for an hourly entry), registered
StationWithEntry(kind, anemometer_height) ==
    [StationInit(4142, 10900, 50, anemometer_height, 345) EXCEPT
       !.days = IF kind = "day" THEN DictSet(<<>>, 180, 1) ELSE <<>>,
       !.hours = IF kind = "hour" THEN DictSet(<<>>, HourKey(180, 0), 1) ELSE <<>>]

InitEto ==
    /\ CHECK_RADIATION_RANGE = TRUE
    /\ CHECK_SUNSHINE_HOURS_RANGE = TRUE
    /\ climates = <<ClimateInit>>
    /\ \E kind \in EtoKinds, h \in EtoAnemometerHeights, ws \in EtoWindSpeeds,
          tmin \in EtoTempMins, tmax \in EtoTempMaxs, tmean \in EtoTempMeans,
          tsoil \in EtoTempSoils, r \in EtoRadiations, hm \in EtoHumidityMeans :
          /\ station = StationWithEntry(kind, h)
          /\ entries = << [TimeEntryInit(kind, IF kind = "hour" THEN 0 ELSE 180, 180) EXCEPT
                             !.wind_speed = ws, !.temp_min = tmin, !.temp_max = tmax,
                             !.temp_mean = tmean, !.temp_soil = tsoil, !.radiation_s = r,
                             !.humidity_mean = hm] >>
    /\ ret = Call("Station", 0, None, None, None, None, Ok(<<"station">>))

NextEto ==
    \/ \E ref \in {None} \cup (1..Len(climates)) : SetStationClimate(ref)
    \/ \E id \in 1..Len(entries) : Call_wind_speed_2m(id)
    \/ \E id \in 1..Len(entries) : Call_R_nl(id)
    \/ \E id \in 1..Len(entries) : Call_net_radiation(id)
    \/ \E id \in 1..Len(entries) : Call_eto_hargreaves(id)
    \/ \E id \in 1..Len(entries) : Call_eto(id)
    \/ \E id \in 1..Len(entries) : Call_actual_vapour_pressure(id)
    \/ SolarRadiationCall

SpecEto == InitEto /\ [][NextEto]_vars

\* observations of the entry whose vapour pressure is derived
VapourPressures == {None, 1200}
VapourTempDrys == {None, 18}
VapourTempWets == {None, 0, 12}
VapourHumidityMaxs == {None, 80}
VapourHumidityMins == {None, 40}
VapourTempMaxs == {None, 20}
VapourTempMins == {None, 2, 10}
VapourHumidityMeans == {None, 50}
VapourTempMeans == {None, 15}
VapourTempDews == {None, 8}

InitVapour ==
    /\ CHECK_RADIATION_RANGE = TRUE
    /\ CHECK_SUNSHINE_HOURS_RANGE = TRUE
    /\ climates = <<ClimateInit>>
    /\ station = StationWithEntry("day", 2)
    /\ \E vp \in VapourPressures, tdry \in VapourTempDrys, twet \in VapourTempWets,
          hmax \in VapourHumidityMaxs, hmin \in VapourHumidityMins,
          tmax \in VapourTempMaxs, tmin \in VapourTempMins,
          hm \in VapourHumidityMeans, tmean \in VapourTempMeans, tdew \in VapourTempDews :
          entries = << [TimeEntryInit("day", 180, 180) EXCEPT
                          !.vapour_pressure = vp, !.temp_dry = tdry, !.temp_wet = twet,
                          !.humidity_max = hmax, !.humidity_min = hmin,
                          !.temp_max = tmax, !.temp_min = tmin,
                          !.humidity_mean = hm, !.temp_mean = tmean, !.temp_dew = tdew] >>
    /\ ret = Call("Station", 0, None, None, None, None, Ok(<<"station">>))

NextVapour ==
    \/ \E id \in 1..Len(climates) : Call_arid(id)
    \/ \E id \in 1..Len(climates) : Call_humid(id)
    \/ \E id \in 1..Len(entries) : Call_dew_point(id)
    \/ \E id \in 1..Len(entries) : Call_actual_vapour_pressure(id)

SpecVapour == InitVapour /\ [][NextVapour]_vars

(* The hourly factory specification: the same station, hourly entries      *)
(* created through hour_entry, and the derivations read from them.         *)

NextHour ==
    \/ HourEntryCall
    \/ \E b \in BOOLEAN : SetCheckRadiationRange(b)
    \/ \E ref \in {None} \cup (1..Len(climates)) : SetStationClimate(ref)
    \/ SolarRadiationCall
    \/ \E id \in 1..Len(entries) : Call_R_nl(id)
    \/ \E id \in 1..Len(entries) : Call_net_radiation(id)
    \/ \E id \in 1..Len(entries) : Call_eto(id)

SpecHour == Init /\ [][NextHour]_vars

----------------------------------------------------------------------------
(* The radiation specification: one daily or hourly entry whose radiation, *)
(* sunshine and temperature observations the caller has set, a station     *)
(* whose profile the caller reconfigures or removes, and the quantities    *)
(* that fall back on the profile read from the entry.                      *)

\* observations of the entry
SolarRadiations == {None, 0, 21, 22, 23, 400}
SolarSunshines == {None, 0, 80}
SolarTempMins == {None, 10}
SolarTempMaxs == {None, 20}
SolarHours == {0, 12}

InitSolar ==
    /\ CHECK_RADIATION_RANGE = TRUE
    /\ CHECK_SUNSHINE_HOURS_RANGE = TRUE
    /\ climates = <<ClimateInit>>
    /\ \E altitude \in Altitudes, kind \in EtoKinds, r \in SolarRadiations :
          /\ station = [StationWithEntry(kind, 2) EXCEPT !.altitude = altitude]
          /\ \/ /\ kind = "day"
                /\ \E s \in SolarSunshines, tmin \in SolarTempMins, tmax \in SolarTempMaxs :
                      entries = << [TimeEntryInit("day", 180, 180) EXCEPT
                                      !.radiation_s = r, !.sunshine_hours = s,
                                      !.temp_min = tmin, !.temp_max = tmax] >>
             \/ /\ kind = "hour"
                /\ \E h \in SolarHours :
                      entries = << [TimeEntryInit("hour", h, 180) EXCEPT !.radiation_s = r] >>
    /\ ret = Call("Station", 0, None, None, None, None, Ok(<<"station">>))

NextSolar ==
    \/ \E ref \in {None} \cup (1..Len(climates)) : SetStationClimate(ref)
    \/ \E id \in 1..Len(climates) : Call_interior(id)
    \/ \E id \in 1..Len(climates) : Call_coastal(id)
    \/ \E id \in 1..Len(climates) : Call_island(id)
    \/ \E b \in BOOLEAN : SetCheckRadiationRange(b)
    \/ \E b \in BOOLEAN : SetCheckSunshineHoursRange(b)
    \/ SolarRadiationCall
    \/ \E id \in 1..Len(entries) : Call_dew_point(id)
    \/ \E id \in 1..Len(entries) : Call_wind_speed_2m(id)

SpecSolar == InitSolar /\ [][NextSolar]_vars

----------------------------------------------------------------------------
(* Steps of the factory specifications, recognised from the call record *)

\* the step is a call of Station.day_entry
DayEntryStep == ret'.op = "day_entry" /\ (ret' # ret \/ entries' # entries)

\* the step is a call of Station.hour_entry
HourEntryStep == ret'.op = "hour_entry" /\ (ret' # ret \/ entries' # entries)

\* the step is a call of solar_radiation() on an entry
SolarRadiationStep == ret'.op = "solar_radiation" /\ ret' # ret

\* the entry object the step created
NewEntry == entries'[Len(entries')]

----------------------------------------------------------------------------
(* Claims *)

\* C1 (as claimed): with the radiation range check enabled, hour_entry with a
\* non-zero radiation_s = r raises ValueError when r - R_so > 0.05 * R_so, and
\* otherwise returns an entry whose radiation_s is r.
C1_HourEntryRadiationBand ==
    [][(HourEntryStep /\ Truthy(ret'.r) /\ CHECK_RADIATION_RANGE) =>
         IF 100 * (ret'.r - R_so(NewEntry)) > 5 * R_so(NewEntry)
         THEN ret'.kind = "raise" /\ ret'.exc = "ValueError"
         ELSE ret'.kind = "ok" /\ NewEntry.radiation_s = ret'.r]_vars

\* C2 (as claimed): a day_entry call that raises leaves station.days as it was.
C2_FailedDayEntryKeepsRegistry ==
    [][(DayEntryStep /\ ret'.kind = "raise") => station'.days = station.days]_vars

\* C4: day_entry(d) raises when d < 1 or d > 366; for d in 1..366 without a
\* radiation or sunshine observation it returns a new entry whose day_number is d
\* and station.days[d] is that entry.
C4_DayNumberRange ==
    [][DayEntryStep =>
         /\ (ret'.d < 1 \/ ret'.d > 366) => (ret'.kind = "raise" /\ entries' = entries)
         /\ (ret'.d >= 1 /\ ret'.d <= 366 /\ ret'.r = None /\ ret'.s = None) =>
              /\ ret'.kind = "ok"
              /\ ret'.val = <<"entry", Len(entries')>>
              /\ Len(entries') = Len(entries) + 1
              /\ NewEntry.kind = "day"
              /\ NewEntry.day_number = ret'.d
              /\ ret'.d \in DOMAIN station'.days
              /\ station'.days[ret'.d] = ret'.val[2]]_vars

\* C4 witness: day_entry(366) succeeded and is registered under 366
C4_Witness ==
    /\ ret.op = "day_entry" /\ ret.kind = "ok" /\ ret.d = 366
    /\ ret.r = None /\ ret.s = None
    /\ station.days[366] = ret.val[2]

\* the radiation argument r does not make day_entry raise
RadiationAccepted(r, e) == ~Truthy(r) \/ ~CHECK_RADIATION_RANGE \/ r <= R_so(e)

\* C5: day_entry with sunshine_hours above daylight_hours() raises ValueError when
\* the sunshine switch is on; when it is off the call (radiation accepted) returns
\* an entry that records the value, and solar_radiation() on an entry whose
\* sunshine_hours exceed daylight_hours() does not raise the sunshine-bound error.
C5_SunshineHoursSwitch ==
    [][/\ (DayEntryStep /\ DayNumberInRange(ret'.d) /\ ret'.s # None
              /\ ret'.s > daylight_hours(NewEntry)) =>
             IF CHECK_SUNSHINE_HOURS_RANGE
             THEN ret'.kind = "raise" /\ ret'.exc = "ValueError"
                  /\ NewEntry.sunshine_hours = None
             ELSE RadiationAccepted(ret'.r, NewEntry) =>
                    (ret'.kind = "ok" /\ NewEntry.sunshine_hours = ret'.s)
       /\ (SolarRadiationStep /\ ~CHECK_SUNSHINE_HOURS_RANGE
              /\ entries[ret'.self].kind = "day"
              /\ entries[ret'.self].sunshine_hours # None
              /\ entries[ret'.self].sunshine_hours > daylight_hours(entries[ret'.self])) =>
             /\ ret'.msg # "Daylight hours out of range"
             /\ ~Truthy(entries[ret'.self].radiation_s) => ret'.kind = "ok"]_vars

\* C5 witness: solar_radiation() returned a value for an entry created, with the
\* switch off, with more sunshine hours than the day has
C5_Witness ==
    /\ ret.op = "solar_radiation" /\ ret.kind = "ok"
    /\ ~CHECK_SUNSHINE_HOURS_RANGE
    /\ entries[ret.self].radiation_s = None
    /\ entries[ret.self].sunshine_hours = 92
    /\ entries[ret.self].sunshine_hours > daylight_hours(entries[ret.self])

\* C6 (as claimed): an entry created by the factory with radiation_s = r at or
\* below its clear-sky ceiling (r = 0 included) is created successfully and
\* solar_radiation() on it returns r.
C6_RadiationRoundTrip ==
    [][((DayEntryStep \/ HourEntryStep) /\ Len(entries') > Len(entries)
          /\ ret'.r # None /\ ret'.r <= R_so(NewEntry)) =>
         /\ ret'.kind = "ok"
         /\ solar_radiation(NewEntry) = Ok(Num(ret'.r))]_vars

\* the names of the Climate mutators
Mutators == {"arid", "humid", "interior", "coastal", "island",
             "light_winds", "moderate_winds", "strong_winds"}

\* exactly one of the given flags is true
ExactlyOne(flags) == Cardinality({i \in DOMAIN flags : flags[i]}) = 1

\* C7: every profile, after construction and after any sequence of mutators, has
\* exactly one location flag and exactly one humidity flag set, k_rs = 0.16 when
\* interior and 0.19 when coastal or island, dew_point_difference = 2 when arid and
\* 0 when humid; and a mutator returns the object it was called on.
C7_ClimateExclusiveGroups ==
    /\ \A id \in 1..Len(climates) :
         LET c == climates[id]
         IN  /\ ExactlyOne(<<c.interior_location, c.coastal_location, c.island_location>>)
             /\ ExactlyOne(<<c.arid_climate, c.humid_climate>>)
             /\ c.interior_location => c.k_rs = 16
             /\ (c.coastal_location \/ c.island_location) => c.k_rs = 19
             /\ c.arid_climate => c.dew_point_difference = 2
             /\ c.humid_climate => c.dew_point_difference = 0
    /\ ret.op \in Mutators => (ret.kind = "ok" /\ ret.val = <<"climate", ret.self>>)

\* C7 witness: a profile switched coastal, then island, then humid
C7_Witness ==
    /\ ret.op = "humid" /\ ret.self = 1
    /\ climates[1].island_location /\ climates[1].humid_climate
    /\ climates[1].average_wind_speed = 40

\* the step is a call of the derivation op on an entry
DeriveStep(op) == ret'.op = op /\ ret' # ret

\* the outcome part of a call record
Outcome(c) == [kind |-> c.kind, exc |-> c.exc, msg |-> c.msg, val |-> c.val]

\* the missing-data errors of R_nl()
MissingDataMessages ==
    {"Net longwave radiation cannot be calculated without min/max temperature",
     "Net longwave radiation cannot be calculated without soil temperature"}

\* C3 (as claimed): when R_nl() on an entry raises its missing-data error,
\* net_radiation() and eto() on that entry raise the same error, kind and message.
\* Stated for the entries on which everything computed before the longwave step
\* succeeds (R_ns(); for eto() also the wind speed and the mean temperature).
C3_LongwaveErrorPropagates ==
    [][(/\ \/ DeriveStep("net_radiation")
           \/ /\ DeriveStep("eto")
              /\ TruthyVal(wind_speed_2m(entries[ret'.self]).val)
              /\ Tmean(entries[ret'.self]).val # <<"None">>
        /\ R_ns(entries[ret'.self]).kind = "ok"
        /\ R_nl(entries[ret'.self]).kind = "raise"
        /\ R_nl(entries[ret'.self]).msg \in MissingDataMessages) =>
         Outcome(ret') = R_nl(entries[ret'.self])]_vars

\* an observation is present when it was set, whatever its value
Present(x) == x # None

\* C8 (as claimed): eto() returns eto_hargreaves() only when the entry has no wind
\* observation and the station has no climate profile; with a wind observation
\* (0 included) or a profile it takes the Penman-Monteith path.
C8_HargreavesOnlyWithoutWind ==
    [][DeriveStep("eto") =>
         IF Present(entries[ret'.self].wind_speed) \/ HasClimate(station.climate)
         THEN ret'.kind = "ok" => ret'.val[1] = "Eq6"
         ELSE Outcome(ret') = eto_hargreaves(entries[ret'.self])]_vars

\* C9 (as claimed): wind_speed_2m() returns the logged value, 0 included, when the
\* anemometer is at 2 m; the log-profile correction of it at another height; the
\* profile's average_wind_speed when nothing is logged; None without a profile.
C9_WindSpeedSelection ==
    [][DeriveStep("wind_speed_2m") =>
         LET e == entries[ret'.self]
         IN  /\ ret'.kind = "ok"
             /\ ret'.val =
                  IF Present(e.wind_speed) /\ station.anemometer_height = 2
                  THEN <<"num", e.wind_speed>>
                  ELSE IF Present(e.wind_speed)
                  THEN <<"num", Round(e.wind_speed * WindFactor(station.anemometer_height),
                                      100000)>>
                  ELSE IF HasClimate(station.climate)
                  THEN <<"num", climates[station.climate].average_wind_speed>>
                  ELSE <<"None">>]_vars

\* the branch of actual_vapour_pressure() the claimed order selects
FirstSatisfiableBranch(e) ==
    IF Present(e.vapour_pressure)
    THEN <<"num", e.vapour_pressure>>
    ELSE IF Present(e.temp_dry) /\ Present(e.temp_wet)
    THEN <<"Eq15", e.temp_dry, e.temp_wet>>
    ELSE IF Present(e.humidity_max) /\ Present(e.humidity_min)
            /\ Present(e.temp_max) /\ Present(e.temp_min)
    THEN <<"Eq17", e.humidity_max, e.humidity_min, e.temp_max, e.temp_min>>
    ELSE IF Present(e.humidity_max) /\ Present(e.temp_min)
    THEN <<"Eq18", e.humidity_max, e.temp_min>>
    ELSE IF Present(e.humidity_mean) /\ Present(e.temp_max) /\ Present(e.temp_min)
    THEN <<"Eq19", e.humidity_mean, e.temp_max, e.temp_min>>
    ELSE IF Present(e.humidity_mean) /\ Present(e.temp_mean)
    THEN <<"Eq19mean", e.humidity_mean, e.temp_mean>>
    ELSE IF Present(e.temp_dew)
    THEN <<"Eq14", e.temp_dew>>
    ELSE IF Present(e.temp_min) /\ HasClimate(station.climate)
    THEN <<"Eq14", e.temp_min - climates[station.climate].dew_point_difference>>
    ELSE <<"None">>

\* C10 (as claimed): actual_vapour_pressure() uses the first branch, in the order
\* (1)..(7), whose observations are all present, and returns no value only when
\* no branch is satisfiable.
C10_VapourPressureBranchOrder ==
    [][DeriveStep("actual_vapour_pressure") =>
         (ret'.kind = "ok" /\ ret'.val = FirstSatisfiableBranch(entries[ret'.self]))]_vars

----------------------------------------------------------------------------
(* Claims on the radiation fallbacks *)

\* the station's current profile marks an island below 100 m
IslandBelow100 ==
    /\ HasClimate(station.climate)
    /\ climates[station.climate].island_location
    /\ station.altitude < 100

\* the value of the simplified island formula (Eq. 51), tenths
IslandFormula(e) == <<"num", Round(7 * R_a(e) - 40000, 1000)>>

\* the outcome of the Angstrom formula (Eq. 35) with n sunshine hours
Angstrom(e, n) ==
    IF n < 0
    THEN Raise("ValueError", "Observed daylight hours cannot be less than 0")
    ELSE IF n > daylight_hours(e) /\ CHECK_SUNSHINE_HOURS_RANGE
    THEN Raise("ValueError", "Daylight hours out of range")
    ELSE Ok(<<"num", Round(R_a(e) * (daylight_hours(e) + 2 * n), 400 * daylight_hours(e))>>)

C12_HargreavesSamaniCoefficient ==
    [][(SolarRadiationStep /\ ret'.kind = "ok" /\ ret'.val[1] = "Eq50") =>
         LET climate == climates[station.climate]
         IN  /\ ret'.val[2] = climate.k_rs
             /\ climate.coastal_location => ret'.val[2] = 19
             /\ climate.island_location => ret'.val[2] = 19
             /\ climate.interior_location => ret'.val[2] = 16]_vars

\* C16: HourEntry.solar_radiation() raises the missing-data error when
\* radiation_s is unset; with the radiation switch on it raises ValueError when
\* R_so = 0 and radiation_s > 0.05, or R_so > 0 and (radiation_s - R_so)/R_so >
\* 0.05; otherwise, and always with the switch off, it returns radiation_s, a
\* logged 0 included.
C16_HourlySolarRadiation ==
    [][(SolarRadiationStep /\ entries[ret'.self].kind = "hour") =>
         LET e == entries[ret'.self]
             Rso == R_so(e)
         IN  IF e.radiation_s = None
             THEN ret'.kind = "raise" /\ ret'.exc = "Exception"
                  /\ ret'.msg = "Cannot calculate eto(): radiation_s (Solar radiation) is missing"
             ELSE IF CHECK_RADIATION_RANGE
                     /\ \/ Rso = 0 /\ 100 * e.radiation_s > 50
                        \/ Rso > 0 /\ 100 * (e.radiation_s - Rso) > 5 * Rso
             THEN ret'.kind = "raise" /\ ret'.exc = "ValueError"
             ELSE ret'.kind = "ok" /\ ret'.val = <<"num", e.radiation_s>>]_vars

\* C16 witness: a logged radiation of 0 was returned as 0 by an hourly entry
C16_Witness ==
    /\ ret.op = "solar_radiation" /\ ret.kind = "ok"
    /\ entries[ret.self].kind = "hour"
    /\ entries[ret.self].radiation_s = 0
    /\ ret.val = <<"num", 0>>

\* C17 (as claimed): the climate-based fallbacks of an entry use the profile the
\* station refers to at the time of the call: dew_point() without a logged dew
\* point is temp_min minus the current profile's dew_point_difference, and None
\* when the station has no profile; wind_speed_2m() without a logged wind speed is
\* the current profile's average_wind_speed, and None when there is none.
C17_FallbacksUseStationClimate ==
    [][/\ (DeriveStep("dew_point") /\ entries[ret'.self].temp_dew = None) =>
            LET e == entries[ret'.self]
            IN  ret'.val =
                  IF Truthy(e.temp_min) /\ HasClimate(station.climate)
                  THEN <<"num", e.temp_min - climates[station.climate].dew_point_difference>>
                  ELSE <<"None">>
       /\ (DeriveStep("wind_speed_2m") /\ entries[ret'.self].wind_speed = None) =>
            ret'.val =
              IF HasClimate(station.climate)
              THEN <<"num", climates[station.climate].average_wind_speed>>
              ELSE <<"None">>]_vars

----------------------------------------------------------------------------
(* Station construction *)

\* a Python value with its type; latitudes and longitudes in hundredths of a degree
PyFloat(v) == [type |-> "float", val |-> v]
PyInt(v) == [type |-> "int", val |-> v]
PyBool(v) == [type |-> "bool", val |-> v]
PyStr == [type |-> "str", val |-> 0]

LatitudeInRange(v) == ~(v < -9000 \/ v > 9000)

LongitudeInRange_Below360(v) == ~(v < 0 \/ v >= 36000)

LongitudeInRange(v) == ~(v < 0 \/ v > 36000)

TimezoneLongitudeInRange(v) == ~(v < 0 \/ v > 359)

\* the argument checks of Station.__init__, in the order of the code
StationCheck(latitude, longitude, altitude, timezone_longitude) ==
    IF latitude.type # "float"
    THEN Raise("TypeError", "latitude must be a float")
    ELSE IF longitude.type # "float"
    THEN Raise("TypeError", "longitude must be a float")
    ELSE IF ~LatitudeInRange(latitude.val)
    THEN Raise("Exception", "latitude must be between -90.0 and 90.0")
    ELSE IF ~LongitudeInRange(longitude.val)
    THEN Raise("Exception", "longitude in degrees West of Greenwhich.")
    ELSE IF altitude.type # "int"
    THEN Raise("TypeError", "altitude must be an integer")
    ELSE IF altitude.val < 0
    THEN Raise("Exception", "'altitude' must be above 0")
    ELSE IF ~TimezoneLongitudeInRange(timezone_longitude)
    THEN Raise("Exception", "'timezone_longitude in degrees West of Greenwhich.")
    ELSE Ok(<<"station">>)

\* arguments the caller passes to the constructor
LatitudeArgs == {PyFloat(4142), PyFloat(9000), PyFloat(9001), PyInt(4100), PyStr}
LongitudeArgs == {PyFloat(10900), PyFloat(36000), PyFloat(36100), PyFloat(-100), PyInt(10900)}
AltitudeArgs == {PyInt(50), PyInt(-1), PyFloat(50), PyBool(1), PyStr}
TimezoneLongitudeArgs == {0, 345, 359, 360, -1}
AnemometerHeightArgs == {2}

\* station = Station(latitude, longitude, altitude, anemometer_height, timezone_longitude):
\* the name is bound to the new object only when the constructor returns
NewStation(latitude, longitude, altitude, anemometer_height, timezone_longitude) ==
    LET out == StationCheck(latitude, longitude, altitude, timezone_longitude)
    IN  /\ ret' = Call("Station", 0, latitude, longitude, altitude,
                       <<anemometer_height, timezone_longitude>>, out)
        /\ IF out.kind = "ok"
           THEN /\ station' = StationInit(latitude.val, longitude.val, altitude.val,
                                          anemometer_height, timezone_longitude)
                /\ climates' = <<ClimateInit>>
                /\ entries' = <<>>
           ELSE UNCHANGED <<station, climates, entries>>
        /\ UNCHANGED <<CHECK_RADIATION_RANGE, CHECK_SUNSHINE_HOURS_RANGE>>

StationCall ==
    \E latitude \in LatitudeArgs, longitude \in LongitudeArgs, altitude \in AltitudeArgs,
       anemometer_height \in AnemometerHeightArgs,
       timezone_longitude \in TimezoneLongitudeArgs :
       NewStation(latitude, longitude, altitude, anemometer_height, timezone_longitude)

\* the state after station = Station(41.42, 109.0, 50)
InitStation ==
    /\ CHECK_RADIATION_RANGE = TRUE
    /\ CHECK_SUNSHINE_HOURS_RANGE = TRUE
    /\ station = StationInit(4142, 10900, 50, 2, 345)
    /\ climates = <<ClimateInit>>
    /\ entries = <<>>
    /\ ret = Call("Station", 0, PyFloat(4142), PyFloat(10900), PyInt(50), <<2, 345>>,
                  StationCheck(PyFloat(4142), PyFloat(10900), PyInt(50), 345))

NextStation == StationCall

SpecStation == InitStation /\ [][NextStation]_vars

----------------------------------------------------------------------------
(* Claims on station construction *)

\* a constructor argument of the wrong type
TypeFault(c) == c.d.type # "float" \/ c.h.type # "float" \/ c.r.type # "int"

Numeric(a) == a.type \in {"float", "int", "bool"}

\* a numeric constructor argument outside its range
RangeFault(c) ==
    \/ Numeric(c.d) /\ (c.d.val < -9000 \/ c.d.val > 9000)
    \/ Numeric(c.h) /\ (c.h.val < 0 \/ c.h.val > 36000)
    \/ Numeric(c.r) /\ c.r.val < 0
    \/ c.s[2] < 0 \/ c.s[2] > 359

\* C13: Station construction fails exactly when latitude or longitude is not a
\* float, altitude is not an int, latitude is outside [-90, 90], longitude outside
\* [0, 360], altitude < 0 or timezone_longitude outside [0, 359]; it raises
\* TypeError only when a type is wrong and Exception only when a value is out of
\* range (when both faults are present the first failing check decides); the
\* failed call leaves the caller's station as it was; every other call succeeds
\* with empty days and hours registries, a default Climate and a default Crop.
C13_StationConstruction ==
    [][ret'.op = "Station" =>
         /\ (TypeFault(ret') \/ RangeFault(ret')) <=> ret'.kind = "raise"
         /\ ret'.kind = "raise" =>
              /\ ret'.exc \in {"TypeError", "Exception"}
              /\ ret'.exc = "TypeError" => TypeFault(ret')
              /\ ret'.exc = "Exception" => RangeFault(ret')
              /\ UNCHANGED <<station, climates, entries>>
         /\ ret'.kind = "ok" =>
              /\ station'.latitude = ret'.d.val
              /\ station'.longitude = ret'.h.val
              /\ station'.altitude = ret'.r.val
              /\ station'.anemometer_height = ret'.s[1]
              /\ station'.days = <<>> /\ station'.hours = <<>>
              /\ climates'[station'.climate] = ClimateInit
              /\ station'.ref_crop = CropInit]_vars

\* C13 witness: a construction at the edge of the longitude range succeeded
\* after a failed one left the station alone
C13_Witness ==
    /\ ret.op = "Station" /\ ret.kind = "ok"
    /\ ret.h = PyFloat(36000) /\ ret.d = PyFloat(9000)
    /\ station.longitude = 36000 /\ station.latitude = 9000
    /\ station.days = <<>> /\ station.hours = <<>>

\* C18 (as claimed): after a successful construction the station's
\* timezone_longitude equals the timezone_longitude argument.
C18_TimezoneLongitudeKept ==
    [][(ret'.op = "Station" /\ ret'.kind = "ok") =>
         station'.timezone_longitude = ret'.s[2]]_vars

----------------------------------------------------------------------------
(* Claims on eto() *)

\* C14 (as claimed): every value eto() returns is >= 0, the value of the
\* Hargreaves fallback included.
C14_EtoNeverNegative ==
    [][(DeriveStep("eto") /\ ret'.kind = "ok" /\ ret'.val[1] = "Eq52") =>
         Eq52Value(ret'.val) >= 0]_vars

\* the derivations a caller reads from an entry
Derivations ==
    {"eto", "eto_hargreaves", "net_radiation", "R_nl", "wind_speed_2m",
     "actual_vapour_pressure", "solar_radiation"}

\* C15: a derivation (eto(), solar_radiation(), net_radiation(),
\* actual_vapour_pressure(), ...) leaves the entries, the station with its
\* registries, the climate profiles and the switches unchanged, and an eto() call
\* made right after an eto() call on the same entry has the same outcome, value
\* or failure.
C15_DerivationsReadOnly ==
    [][(ret'.op \in Derivations /\ ret' # ret) =>
         /\ UNCHANGED <<entries, station, climates,
                        CHECK_RADIATION_RANGE, CHECK_SUNSHINE_HOURS_RANGE>>
         /\ \A id \in 1..Len(entries) :
               ret'.self = id =>
                 /\ eto(entries[id])' = eto(entries[id])
                 /\ ret'.op = "eto" => Outcome(ret') = eto(entries[id])']_vars

\* C15 witness: eto() returned a value after another derivation was read from
\* the same entry
C15_Witness ==
    /\ ret.op = "eto" /\ ret.kind = "ok"
    /\ Outcome(ret) = eto(entries[ret.self])
    /\ ret.val[1] = "Eq6"

----------------------------------------------------------------------------
(* Claims on hourly entries *)

SoilTemperatureMissing ==
    Raise("Exception", "Net longwave radiation cannot be calculated without soil temperature")

\* C19: every hourly entry made by Station.hour_entry and not assigned to
\* afterwards has temp_soil unset, so R_nl() raises the missing-soil-temperature
\* error, net_radiation() raises, and eto() raises whenever it takes the
\* Penman-Monteith path (a 2 m wind speed is known); the calls made on such
\* entries had these outcomes.
C19_HourlyEntriesLackSoilTemperature ==
    /\ \A id \in 1..Len(entries) :
         LET e == entries[id]
         IN  e.kind = "hour" =>
               /\ e.temp_soil = None
               /\ R_nl(e) = SoilTemperatureMissing
               /\ net_radiation(e).kind = "raise"
               /\ TruthyVal(wind_speed_2m(e).val) => eto(e).kind = "raise"
    /\ ret.op = "R_nl" => Outcome(ret) = SoilTemperatureMissing
    /\ ret.op = "net_radiation" => ret.kind = "raise"
    /\ (ret.op = "eto" /\ ret.kind = "ok") => ret.val[1] = "Eq52"

\* C19 witness: eto() was called on an hourly entry whose radiation the factory
\* stored, with a wind speed known from the profile, and raised
C19_Witness ==
    /\ ret.op = "eto" /\ ret.kind = "raise"
    /\ entries[ret.self].kind = "hour"
    /\ entries[ret.self].radiation_s # None
    /\ TruthyVal(wind_speed_2m(entries[ret.self]).val)
    /\ R_nl(entries[ret.self]) = SoilTemperatureMissing

====
